---- MODULE Spec2Model ----
(***************************************************************************)
(* A model of generate_directory_indexes.py: the recursive walk            *)
(* (traverse_tree), the two entry sources (gather_file_details,            *)
(* parse_file_metadata), the exclusion filter, the link scheme and the     *)
(* renderer.                                                               *)
(*                                                                         *)
(* Text is modelled as a sequence of one-character strings, so that        *)
(* str.replace, str.split, int() and the formatting functions are computed *)
(* character by character, as Python computes them.                        *)
(*                                                                         *)
(* The program runs under Python 3 only (it imports urllib.parse): filter  *)
(* returns an iterator there, and an exception that nothing catches ends   *)
(* the run.  Root paths are given without a trailing slash, every listed   *)
(* entry exists, and every directory holds the metadata file when one is   *)
(* configured.                                                             *)
(***************************************************************************)
EXTENDS Integers, Sequences, FiniteSets, TLC

(***************************************************************************)
(* Bounds of the model.                                                    *)
(***************************************************************************)
\* the largest number of entries of the root directory
MaxEntries == 2
\* the depth of the deepest directory below the root
MaxDepth == 2
\* how many times the wall clock advances by one minute during a behaviour
MaxTicks == 1
\* how many times the generator is run again over the same tree
MaxReruns == 1
\* how many links a reader of the pages follows
MaxLinks == 2

(***************************************************************************)
(* Text helpers: Python's str methods.                                     *)
(***************************************************************************)
SLASH == <<"/">>

\* s.startswith(p)
StartsWith(s, p) == Len(s) >= Len(p) /\ SubSeq(s, 1, Len(p)) = p

\* s.endswith(p)
EndsWith(s, p) ==
    Len(s) >= Len(p) /\ SubSeq(s, Len(s) - Len(p) + 1, Len(s)) = p

\* s.replace(old, ''): every non-overlapping occurrence of old, scanning from
\* the left, is removed.
RECURSIVE Replace(_, _)
Replace(s, old) ==
    IF old = <<>> \/ Len(s) < Len(old) THEN s
    ELSE IF SubSeq(s, 1, Len(old)) = old
         THEN Replace(SubSeq(s, Len(old) + 1, Len(s)), old)
         ELSE <<Head(s)>> \o Replace(Tail(s), old)

\* s.split(d) for a one-character delimiter d
RECURSIVE Split(_, _)
Split(s, d) ==
    IF \E i \in 1..Len(s) : s[i] = d
    THEN LET i == CHOOSE k \in 1..Len(s) :
                      s[k] = d /\ \A j \in 1..(k - 1) : s[j] # d
         IN  <<SubSeq(s, 1, i - 1)>> \o Split(SubSeq(s, i + 1, Len(s)), d)
    ELSE <<s>>

\* s.strip(): leading and trailing white space removed
RECURSIVE Strip(_)
Strip(s) ==
    IF s # <<>> /\ Head(s) \in {" ", "\n"} THEN Strip(Tail(s))
    ELSE IF s # <<>> /\ s[Len(s)] \in {" ", "\n"}
         THEN Strip(SubSeq(s, 1, Len(s) - 1))
         ELSE s

\* os.path.join(a, b) for a relative b
PathJoin(a, b) == IF a = <<>> \/ EndsWith(a, SLASH) THEN a \o b ELSE a \o SLASH \o b

DigitChars == <<"0", "1", "2", "3", "4", "5", "6", "7", "8", "9">>

\* str(n) for n >= 0
RECURSIVE Digits(_)
Digits(n) ==
    IF n < 10 THEN <<DigitChars[n + 1]>>
    ELSE Digits(n \div 10) \o <<DigitChars[(n % 10) + 1]>>

DigitValue(c) == (CHOOSE k \in 1..10 : DigitChars[k] = c) - 1

IsNumber(s) == s # <<>> /\ \A i \in 1..Len(s) : \E k \in 1..10 : DigitChars[k] = s[i]

\* int(s) for a string of decimal digits
RECURSIVE ParseInt(_)
ParseInt(s) ==
    IF Len(s) = 1 THEN DigitValue(s[1])
    ELSE 10 * ParseInt(SubSeq(s, 1, Len(s) - 1)) + DigitValue(s[Len(s)])

\* '{:0>w}'.format(n): n in decimal, zero-padded on the left to width w
RECURSIVE ZeroPad(_, _)
ZeroPad(s, w) == IF Len(s) >= w THEN s ELSE ZeroPad(<<"0">> \o s, w)

\* '{:>w}'.format(s): s padded with blanks on the left to width w
RECURSIVE PadLeft(_, _)
PadLeft(s, w) == IF Len(s) >= w THEN s ELSE PadLeft(<<" ">> \o s, w)

\* ' ' * n
RECURSIVE Blanks(_)
Blanks(n) == IF n <= 0 THEN <<>> ELSE <<" ">> \o Blanks(n - 1)

(***************************************************************************)
(* Dates: datetime.utcfromtimestamp(...).strftime and datetime.strptime,   *)
(* computed on the proleptic Gregorian calendar.                           *)
(***************************************************************************)
MonthNames ==
    << <<"J", "a", "n">>, <<"F", "e", "b">>, <<"M", "a", "r">>,
       <<"A", "p", "r">>, <<"M", "a", "y">>, <<"J", "u", "n">>,
       <<"J", "u", "l">>, <<"A", "u", "g">>, <<"S", "e", "p">>,
       <<"O", "c", "t">>, <<"N", "o", "v">>, <<"D", "e", "c">> >>

\* the number of days from 1970-01-01 to the civil date y-m-d
DaysFromCivil(y, m, d) ==
    LET yy  == IF m <= 2 THEN y - 1 ELSE y
        era == yy \div 400
        yoe == yy - era * 400
        mp  == IF m > 2 THEN m - 3 ELSE m + 9
        doy == (153 * mp + 2) \div 5 + d - 1
        doe == yoe * 365 + yoe \div 4 - yoe \div 100 + doy
    IN  era * 146097 + doe - 719468

\* the civil date of the day that lies z days after 1970-01-01
CivilFromDays(z0) ==
    LET z   == z0 + 719468
        era == z \div 146097
        doe == z - era * 146097
        yoe == (doe - doe \div 1460 + doe \div 36524 - doe \div 146096) \div 365
        doy == doe - (365 * yoe + yoe \div 4 - yoe \div 100)
        mp  == (5 * doy + 2) \div 153
        d   == doy - (153 * mp + 2) \div 5 + 1
        m   == IF mp < 10 THEN mp + 3 ELSE mp - 9
        y   == yoe + era * 400 + (IF m <= 2 THEN 1 ELSE 0)
    IN  [year |-> y, month |-> m, day |-> d]

\* format_date(d): '%d-%b-%Y %H:%M' of the UTC time d seconds after the epoch
format_date(d) ==
    LET c  == CivilFromDays(d \div 86400)
        hh == (d % 86400) \div 3600
        mi == (d % 3600) \div 60
    IN  ZeroPad(Digits(c.day), 2) \o <<"-">> \o MonthNames[c.month] \o <<"-">>
        \o ZeroPad(Digits(c.year), 4) \o <<" ">>
        \o ZeroPad(Digits(hh), 2) \o <<":">> \o ZeroPad(Digits(mi), 2)

\* does s have the form the format "%Y-%m-%d:%H:%M" accepts
IsDateTime(s) ==
    LET f == Split(s, ":") IN
    /\ Len(f) = 3
    /\ IsNumber(f[2]) /\ Len(f[2]) <= 2 /\ ParseInt(f[2]) < 24
    /\ IsNumber(f[3]) /\ Len(f[3]) <= 2 /\ ParseInt(f[3]) < 60
    /\ LET g == Split(f[1], "-") IN
       /\ Len(g) = 3
       /\ IsNumber(g[1]) /\ Len(g[1]) = 4
       /\ IsNumber(g[2]) /\ Len(g[2]) <= 2 /\ ParseInt(g[2]) \in 1..12
       /\ IsNumber(g[3]) /\ Len(g[3]) <= 2 /\ ParseInt(g[3]) \in 1..31

\* string_to_epoch_seconds(string, "%Y-%m-%d:%H:%M")
string_to_epoch_seconds(s) ==
    LET f == Split(s, ":")
        g == Split(f[1], "-")
    IN  DaysFromCivil(ParseInt(g[1]), ParseInt(g[2]), ParseInt(g[3])) * 86400
        + ParseInt(f[2]) * 3600 + ParseInt(f[3]) * 60

(***************************************************************************)
(* Sizes.                                                                  *)
(***************************************************************************)
SizeUnits ==
    << <<>>, <<"K", "i">>, <<"M", "i">>, <<"G", "i">>, <<"T", "i">>,
       <<"P", "i">>, <<"E", "i">>, <<"Z", "i">> >>

RECURSIVE PowerOfTen(_)
PowerOfTen(p) == IF p = 0 THEN 1 ELSE 10 * PowerOfTen(p - 1)

\* '{:.pf}'.format(num / den): the quotient rounded to p decimals, a tie going
\* to the even neighbour (num / den is exact in binary, den being a power of 2)
FormatFixed(num, den, p) ==
    LET scale == PowerOfTen(p)
        q     == (num * scale) \div den
        r     == (num * scale) % den
        n     == IF 2 * r > den \/ (2 * r = den /\ q % 2 = 1) THEN q + 1 ELSE q
    IN  Digits(n \div scale) \o <<".">> \o ZeroPad(Digits(n % scale), p)

\* the loop of format_size: a_number is num / den on entering iteration i
RECURSIVE FormatSizeLoop(_, _, _)
FormatSizeLoop(num, den, i) ==
    IF i > Len(SizeUnits)
    THEN FormatFixed(num, den, 6) \o <<"Y", "i", "B">>
    ELSE IF num < 1024 * den
         THEN FormatFixed(num, den, 1) \o SizeUnits[i] \o <<"B">>
         ELSE FormatSizeLoop(num, den * 1024, i + 1)

\* format_size(a_number): never called by the program
format_size(a_number) == FormatSizeLoop(a_number, 1, 1)

(***************************************************************************)
(* The file names of the indexes and the links between them.               *)
(***************************************************************************)
SortKeys ==
    { <<"n", "a", "m", "e">>,
      <<"l", "a", "s", "t", "M", "o", "d", "i", "f", "i", "e", "d">>,
      <<"s", "i", "z", "e">> }

INDEX_HTML == <<"i", "n", "d", "e", "x", ".", "h", "t", "m", "l">>

index_file_name(prefix, order_by, reverse_order) ==
    LET order_suffix == IF reverse_order
                        THEN <<"_", "r", "e", "v", "e", "r", "s", "e">>
                        ELSE <<>>
        file_name    == <<"i", "n", "d", "e", "x">> \o <<"_", "b", "y", "_">>
                        \o order_by \o order_suffix
                        \o <<".", "h", "t", "m", "l">>
    IN  IF Len(prefix) = 0 THEN file_name ELSE prefix \o SLASH \o file_name

index_link_same_direction(prefix, current_order_by, new_order_by, reverse_order) ==
    IF current_order_by = new_order_by
    THEN index_file_name(prefix, current_order_by, reverse_order)
    ELSE index_file_name(prefix, new_order_by, FALSE)

index_link(prefix, current_order_by, new_order_by, reverse_order) ==
    IF current_order_by = new_order_by
    THEN index_file_name(prefix, current_order_by, ~reverse_order)
    ELSE index_file_name(prefix, new_order_by, FALSE)

excluded_file_names ==
    { INDEX_HTML,
      <<"i", "n", "d", "e", "x", "_", "b", "y", "_", "l", "a", "s", "t", "M",
        "o", "d", "i", "f", "i", "e", "d", ".", "h", "t", "m", "l">>,
      <<"i", "n", "d", "e", "x", "_", "b", "y", "_", "l", "a", "s", "t", "M",
        "o", "d", "i", "f", "i", "e", "d", "_", "r", "e", "v", "e", "r", "s",
        "e", ".", "h", "t", "m", "l">>,
      <<"i", "n", "d", "e", "x", "_", "b", "y", "_", "n", "a", "m", "e", ".",
        "h", "t", "m", "l">>,
      <<"i", "n", "d", "e", "x", "_", "b", "y", "_", "n", "a", "m", "e", "_",
        "r", "e", "v", "e", "r", "s", "e", ".", "h", "t", "m", "l">>,
      <<"i", "n", "d", "e", "x", "_", "b", "y", "_", "s", "i", "z", "e", ".",
        "h", "t", "m", "l">>,
      <<"i", "n", "d", "e", "x", "_", "b", "y", "_", "s", "i", "z", "e", "_",
        "r", "e", "v", "e", "r", "s", "e", ".", "h", "t", "m", "l">> }

is_excluded_file(file_name) == file_name \in excluded_file_names

(***************************************************************************)
(* The state: the configuration, the file system, the clock, the call      *)
(* stack of traverse_tree, and what the runs have done.                    *)
(***************************************************************************)
VARIABLES
    configuration,  \* the parsed arguments (the global of the same name)
    isdir,          \* the paths that are directories
    listing,        \* directory -> the names os.listdir returns, in its order
    mtime,          \* path -> os.path.getmtime, in seconds
    fsize,          \* path -> os.path.getsize, in bytes
    unreadable,     \* the directories os.listdir fails on
    manifest,       \* directory -> the lines of its metadata file
    clock,          \* time.time(), in seconds
    stack,          \* the active calls of traverse_tree, innermost last
    status,         \* "running", "done", or "error" (an uncaught exception)
    error,          \* the exception that ended the run
    written,        \* path of an index file on disk -> its content
    previous,       \* the index files as the previous run left them
    run,            \* the number of the current run
    visited,        \* the directories this run has enumerated
    indexed,        \* the directories this run has called make_index_files on
    nav             \* the index page a reader of the links is on

vars == <<configuration, isdir, listing, mtime, fsize, unreadable, manifest,
          clock, stack, status, error, written, previous, run, visited,
          indexed, nav>>

fsvars == <<isdir, fsize, unreadable, manifest>>

NoValue == 0 - 1

(***************************************************************************)
(* The renderer.                                                           *)
(***************************************************************************)
\* the characters urllib.parse.quote leaves alone, among those of the model
QuoteSafe ==
    {"a", "b", "c", "d", "e", "f", "g", "h", "i", "j", "k", "l", "m", "n", "o",
     "p", "q", "r", "s", "t", "u", "v", "w", "x", "y", "z", "M",
     "0", "1", "2", "3", "4", "5", "6", "7", "8", "9", "_", ".", "-", "~", "/"}

QuoteChar(c) ==
    IF c \in QuoteSafe THEN <<c>>
    ELSE CASE c = " " -> <<"%", "2", "0">>
           [] c = ";" -> <<"%", "3", "B">>
           [] c = "&" -> <<"%", "2", "6">>
           [] c = ":" -> <<"%", "3", "A">>

\* urllib.parse.quote(s)
RECURSIVE quote(_)
quote(s) == IF s = <<>> THEN <<>> ELSE QuoteChar(Head(s)) \o quote(Tail(s))

\* the longest name that is displayed whole
DisplayWidth == 50

format_file_details(file_details) ==
    [i \in 1..Len(file_details) |->
        LET k == file_details[i] IN
        [name         |-> k.name,
         displayname  |-> IF Len(k.name) <= DisplayWidth THEN k.name
                          ELSE SubSeq(k.name, 1, DisplayWidth - 3)
                               \o <<".", ".", "&", "g", "t", ";">>,
         lastModified |-> format_date(k.lastModified),
         size         |-> k.size,
         icon         |-> k.icon]]

\* the path render_index shows: the prefix without the base path
displayed_path(prefix, base_path) ==
    IF prefix = base_path THEN <<>> ELSE Replace(prefix, base_path)

\* one line of the listing
render_item(item) ==
    IF item.icon = "folder.gif"
    THEN [folder       |-> TRUE,
          href         |-> quote(item.name) \o SLASH \o INDEX_HTML,
          text         |-> item.displayname \o SLASH,
          gap          |-> Blanks(49 - Len(item.displayname)),
          lastModified |-> item.lastModified,
          size         |-> PadLeft(<<"-">>, 19)]
    ELSE [folder       |-> FALSE,
          href         |-> quote(item.name),
          text         |-> item.displayname,
          gap          |-> Blanks(50 - Len(item.displayname)),
          lastModified |-> item.lastModified,
          size         |-> PadLeft(Digits(item.size), 19)]

\* render_index: the parts of the page that vary
render_index(prefix, order_by, contents, reverse_order, base_path) ==
    LET formatted_contents == format_file_details(contents)
        path        == displayed_path(prefix, base_path)
        root_prefix == IF StartsWith(path, SLASH) THEN <<>> ELSE SLASH
    IN  [title       |-> root_prefix \o path
                         \o (IF path # <<>> THEN SLASH ELSE <<>>),
         parent_link |-> path # <<>>,
         items       |-> [i \in 1..Len(formatted_contents) |->
                             render_item(formatted_contents[i])]]
(***************************************************************************)
(* The exclusion filter and the two entry sources.                         *)
(***************************************************************************)
\* the path is_excluded_path matches the patterns against
excluded_path_subject(path) == Replace(path, configuration.base_path)

\* re.match('/{path}'.format(path=x), path) for a pattern x of plain characters
pattern_matches(x, path) == StartsWith(path, SLASH \o x)

\* is_excluded_path: "True", "False", or the exception it raises. With patterns
\* configured it takes len() of a filter object, which raises TypeError before
\* any pattern is matched.
is_excluded_path_never_raises(path) == "False"

is_excluded_path(path) ==
    IF configuration.exclude_path # <<>> THEN "TypeError" ELSE "False"

exists(full_path) == full_path \in DOMAIN mtime

file_information(full_path, file, last_modified, size) ==
    [name         |-> file,
     lastModified |-> IF last_modified = NoValue THEN mtime[full_path]
                      ELSE last_modified,
     size         |-> IF size = NoValue THEN fsize[full_path] ELSE size,
     icon         |-> IF full_path \in isdir THEN "folder.gif"
                      ELSE "unknown.gif"]

\* the loop of gather_file_details from the i-th name on
RECURSIVE GatherLoop(_, _, _)
GatherLoop(current_path, list_of_files, i) ==
    IF i > Len(list_of_files) THEN [error |-> "", details |-> <<>>]
    ELSE
      LET file_name == list_of_files[i]
          full_path == PathJoin(current_path, file_name)
          rest      == GatherLoop(current_path, list_of_files, i + 1)
      IN  IF StartsWith(file_name, <<".">>) THEN rest
          ELSE IF is_excluded_file(file_name) THEN rest
          ELSE IF is_excluded_path(full_path) = "TypeError"
               THEN [error |-> "TypeError", details |-> <<>>]
          ELSE IF is_excluded_path(full_path) = "True" THEN rest
          ELSE IF exists(full_path)
               THEN [error   |-> rest.error,
                     details |-> <<file_information(full_path, file_name,
                                                    NoValue, NoValue)>>
                                 \o rest.details]
               ELSE rest

gather_file_details(current_path, list_of_files) ==
    GatherLoop(current_path, list_of_files, 1)

\* the loop of parse_file_metadata from the i-th line on
RECURSIVE ParseLoop(_, _, _)
ParseLoop(current_path, lines, i) ==
    IF i > Len(lines) THEN [error |-> "", details |-> <<>>]
    ELSE
      LET line      == Strip(lines[i])
          metadata  == Split(line, configuration.metadata_delimiter)
          file_name == metadata[1]
          full_path == PathJoin(current_path, file_name)
          rest      == ParseLoop(current_path, lines, i + 1)
      IN  IF is_excluded_file(file_name) THEN rest
          ELSE IF Len(metadata) = 1
               THEN [error   |-> rest.error,
                     details |-> <<file_information(full_path, file_name,
                                                    clock, 0)>>
                                 \o rest.details]
          ELSE IF Len(metadata) < 3
               THEN [error |-> "IndexError", details |-> <<>>]
          ELSE IF ~IsDateTime(metadata[2] \o <<":">> \o metadata[3])
               THEN [error |-> "ValueError", details |-> <<>>]
          ELSE IF Len(metadata) < 4
               THEN [error |-> "IndexError", details |-> <<>>]
          ELSE IF ~IsNumber(metadata[4])
               THEN [error |-> "ValueError", details |-> <<>>]
          ELSE [error   |-> rest.error,
                details |-> <<file_information(
                                 full_path, file_name,
                                 string_to_epoch_seconds(
                                     metadata[2] \o <<":">> \o metadata[3]),
                                 ParseInt(metadata[4]))>>
                            \o rest.details]

parse_file_metadata(current_path, file_metadata) ==
    LET file_path == current_path \o SLASH \o file_metadata IN
    IF file_path \notin DOMAIN manifest
    THEN [error |-> "IOError", details |-> <<>>]
    ELSE ParseLoop(current_path, manifest[file_path], 1)

(***************************************************************************)
(* The trees and configurations the runs start from.                       *)
(***************************************************************************)
NAME == <<"n", "a", "m", "e">>

DirNames  == { <<"a">>, <<"b">>, <<".", "h">> }
FileNames == { <<"f">> }
MetadataFileName == <<"m">>

\* the root path and the base path given on the command line
RootChoices ==
    { [path |-> <<"/", "a">>,           base_path |-> <<"/", "a">>],
      [path |-> <<"/", "a", "/", "b">>, base_path |-> <<"/", "a">>] }

FileSizes == {2048}

\* the sequences without repetition of at most n elements of S
Listings(S, n) ==
    UNION { { q \in [1..k -> S] : \A i, j \in 1..k : i # j => q[i] # q[j] }
            : k \in 0..n }

\* the directories of the tree: those the root lists, and below each of them
\* a chain of directories listing sub, down to depth MaxDepth
RECURSIVE DirsBelow(_, _, _)
DirsBelow(level, sub, depth) ==
    IF depth >= MaxDepth \/ level = {} THEN level
    ELSE level \cup
         DirsBelow({ PathJoin(d, sub[i]) :
                        d \in level,
                        i \in { j \in 1..Len(sub) : sub[j] \in DirNames } },
                   sub, depth + 1)

TreeDirs(root, rootListing, sub) ==
    {root} \cup
    DirsBelow({ PathJoin(root, rootListing[i]) :
                  i \in { j \in 1..Len(rootListing) :
                            rootListing[j] \in DirNames } },
              sub, 1)

\* the last modification of everything in the tree before the first run
OldTime ==
    string_to_epoch_seconds(
        <<"2", "0", "2", "1", "-", "0", "3", "-", "0", "4", ":",
          "0", "9", ":", "1", "5">>)

\* the line of the metadata file of a directory that describes name: the bare
\* name of a directory, the four fields of a file
ManifestLine(full_path, name, dirs, size) ==
    IF full_path \in dirs THEN name
    ELSE name \o <<";">>
         \o <<"2", "0", "2", "1", "-", "0", "3", "-", "0", "4">> \o <<";">>
         \o <<"0", "9", ":", "1", "5">> \o <<";">> \o Digits(size)

\* a reader on the page of directory prefix sorted by order_by; trail holds,
\* for the links followed so far, the page left and whether the link was the
\* one of the page's own sort key
OnPage(prefix, order_by, reverse_order, trail) ==
    [prefix |-> prefix, order_by |-> order_by, reverse_order |-> reverse_order,
     file |-> index_file_name(prefix, order_by, reverse_order),
     trail |-> trail]

InitWith(rc, rootListing, sub, mode, excl, noop, unread, size) ==
    LET dirs   == TreeDirs(rc.path, rootListing, sub)
        \* the directories at depth MaxDepth, which list nothing
        deep   == { d \in dirs : \A i \in 1..Len(sub) :
                                    sub[i] \in DirNames
                                    => PathJoin(d, sub[i]) \notin dirs }
        names  == [d \in dirs |->
                      IF d = rc.path THEN rootListing
                      ELSE IF d \in deep /\ \E i \in 1..Len(sub) :
                                               sub[i] \in DirNames
                           THEN <<>>
                           ELSE sub]
        paths  == dirs \cup
                  UNION { { PathJoin(d, names[d][i]) : i \in 1..Len(names[d]) }
                          : d \in dirs }
        metas  == IF mode = "filesystem" THEN {}
                  ELSE { PathJoin(d, MetadataFileName) : d \in dirs }
    IN
    /\ configuration =
           [path               |-> rc.path,
            base_path          |-> rc.base_path,
            file_metadata      |-> IF mode = "filesystem" THEN <<>>
                                   ELSE MetadataFileName,
            metadata_delimiter |-> ";",
            exclude_path       |-> excl,
            noop               |-> noop]
    /\ isdir = dirs
    /\ listing = [d \in dirs |->
                     IF mode = "filesystem" THEN names[d]
                     ELSE names[d] \o <<MetadataFileName>>]
    /\ mtime = [q \in paths \cup metas |-> OldTime]
    /\ fsize = [q \in paths \cup metas |-> IF q \in dirs THEN 4096 ELSE size]
    /\ unreadable = unread
    /\ manifest =
           [q \in metas |->
               LET d == SubSeq(q, 1, Len(q) - Len(MetadataFileName) - 1) IN
               [i \in 1..Len(names[d]) |->
                   ManifestLine(PathJoin(d, names[d][i]), names[d][i], dirs,
                                size)]]
    /\ clock = OldTime + 86400
    /\ stack = << [current_path |-> rc.path, contents |-> <<>>, i |-> 0] >>
    /\ status = "running"
    /\ error = ""
    /\ written = << >>
    /\ previous = << >>
    /\ run = 1
    /\ visited = {}
    /\ indexed = {}

Init ==
    \E rc \in RootChoices,
       rootListing \in Listings(DirNames \cup FileNames, MaxEntries),
       sub \in { <<>>, << <<"a">> >> },
       mode \in {"filesystem", "manifest"},
       excl \in { <<>>, << <<"b">> >> },
       noop \in BOOLEAN,
       size \in FileSizes :
      \E unread \in {{}} \cup
                    { {d} : d \in TreeDirs(rc.path, rootListing, sub)
                                  \ {rc.path} } :
         /\ InitWith(rc, rootListing, sub, mode, excl, noop, unread, size)
         /\ nav = OnPage(<<>>, NAME, FALSE, <<>>)

(***************************************************************************)
(* The run: traverse_tree, one action for each way a call proceeds.        *)
(***************************************************************************)
Top == stack[Len(stack)]

\* an uncaught exception unwinds every call and ends the run
Raise(exception) ==
    /\ status' = "error"
    /\ error' = exception
    /\ stack' = <<>>

\* the innermost call returns
Return ==
    /\ stack' = SubSeq(stack, 1, Len(stack) - 1)
    /\ status' = IF Len(stack) = 1 THEN "done" ELSE "running"
    /\ error' = error

\* make_index_files: render the page and, unless --noop, write index.html
make_index_files(base_path, current_path, file_details) ==
    LET order_by      == NAME
        reverse_order == FALSE
        file_name     == PathJoin(current_path, INDEX_HTML)
        rendered_html == render_index(current_path, order_by, file_details,
                                      reverse_order, base_path)
    IN  IF configuration.noop
        THEN UNCHANGED <<written, listing, mtime>>
        ELSE /\ written' = (file_name :> rendered_html) @@ written
             \* creating the file adds an entry to the directory, which
             \* sets the directory's modification time
             /\ IF file_name \in DOMAIN written
                THEN UNCHANGED <<listing, mtime>>
                ELSE /\ listing' = [listing EXCEPT ![current_path] =
                                        @ \o <<INDEX_HTML>>]
                     /\ mtime' = [mtime EXCEPT ![current_path] = clock]

\* line 281: os.listdir raises
traverse_tree_listdir_fails ==
    /\ status = "running"
    /\ Top.i = 0
    /\ Top.current_path \in unreadable
    /\ Raise("OSError")
    /\ UNCHANGED <<configuration, fsvars, listing, mtime, clock, written,
                   previous, run, visited, indexed, nav>>

\* lines 281-283: the directory is listed and is_excluded_path raises
traverse_tree_exclusion_raises ==
    /\ status = "running"
    /\ Top.i = 0
    /\ Top.current_path \notin unreadable
    /\ is_excluded_path(Top.current_path) = "TypeError"
    /\ visited' = visited \cup {Top.current_path}
    /\ Raise("TypeError")
    /\ UNCHANGED <<configuration, fsvars, listing, mtime, clock, written,
                   previous, run, indexed, nav>>

\* lines 281-292: the directory is listed, its entries are gathered and its
\* index is made
traverse_tree_index ==
    /\ status = "running"
    /\ Top.i = 0
    /\ Top.current_path \notin unreadable
    /\ is_excluded_path(Top.current_path) # "TypeError"
    /\ LET current_path == Top.current_path
           contents     == listing[current_path]
           source       == IF configuration.file_metadata # <<>>
                           THEN parse_file_metadata(
                                    current_path, configuration.file_metadata)
                           ELSE gather_file_details(current_path, contents)
       IN  /\ visited' = visited \cup {current_path}
           /\ IF is_excluded_path(current_path) = "True"
              THEN /\ Return
                   /\ UNCHANGED <<written, listing, mtime, indexed>>
              ELSE IF source.error # ""
              THEN /\ Raise(source.error)
                   /\ UNCHANGED <<written, listing, mtime, indexed>>
              ELSE /\ make_index_files(configuration.base_path, current_path,
                                       source.details)
                   /\ indexed' = indexed \cup {current_path}
                   /\ stack' = [stack EXCEPT ![Len(stack)] =
                                   [@ EXCEPT !.contents = contents, !.i = 1]]
                   /\ UNCHANGED <<status, error>>
    /\ UNCHANGED <<configuration, fsvars, clock, previous, run, nav>>

\* lines 293-296: the next name of the listing; a directory is descended into
traverse_tree_loop ==
    /\ status = "running"
    /\ Top.i \in 1..Len(Top.contents)
    /\ LET file_name     == Top.contents[Top.i]
           absolute_path == PathJoin(Top.current_path, file_name)
           advanced      == [stack EXCEPT ![Len(stack)].i = @ + 1]
       IN  stack' = IF absolute_path \in isdir
                    THEN Append(advanced, [current_path |-> absolute_path,
                                           contents     |-> <<>>,
                                           i            |-> 0])
                    ELSE advanced
    /\ UNCHANGED <<configuration, fsvars, listing, mtime, clock, status,
                   error, written, previous, run, visited, indexed, nav>>

\* the loop is over: the call returns
traverse_tree_return ==
    /\ status = "running"
    /\ Top.i > Len(Top.contents)
    /\ Return
    /\ UNCHANGED <<configuration, fsvars, listing, mtime, clock, written,
                   previous, run, visited, indexed, nav>>

\* a minute passes; a run is taken to be over within the minute it starts in
Tick ==
    /\ status # "running"
    /\ clock < OldTime + 86400 + 60 * MaxTicks
    /\ clock' = clock + 60
    /\ UNCHANGED <<configuration, fsvars, listing, mtime, stack, status,
                   error, written, previous, run, visited, indexed, nav>>

\* the generator is run again, with the same arguments, over the tree as the
\* run before left it
Rerun ==
    /\ status \in {"done", "error"}
    /\ run <= MaxReruns
    /\ run' = run + 1
    /\ previous' = written
    /\ stack' = << [current_path |-> configuration.path,
                    contents |-> <<>>, i |-> 0] >>
    /\ status' = "running"
    /\ error' = ""
    /\ visited' = {}
    /\ indexed' = {}
    /\ UNCHANGED <<configuration, fsvars, listing, mtime, clock, written, nav>>

Next ==
    \/ traverse_tree_listdir_fails
    \/ traverse_tree_exclusion_raises
    \/ traverse_tree_index
    \/ traverse_tree_loop
    \/ traverse_tree_return
    \/ Tick
    \/ Rerun

Spec == Init /\ [][Next]_vars

(***************************************************************************)
(* The links between the pages of one directory: a reader follows them.    *)
(***************************************************************************)
LinkPrefixes == { <<>>, <<"/", "b">>, <<"/", "b", "/", "a">> }

InitLink ==
    /\ InitWith(CHOOSE rc \in RootChoices : rc.path = rc.base_path,
                <<>>, <<>>, "filesystem", <<>>, FALSE, {}, 2048)
    /\ \E prefix \in LinkPrefixes, order_by \in SortKeys,
          reverse_order \in BOOLEAN :
          nav = OnPage(prefix, order_by, reverse_order, <<>>)

\* the reader follows the link of the column new_order_by and lands on the
\* page of that file name
follow_link ==
    \E new_order_by \in SortKeys :
       LET target == index_link(nav.prefix, nav.order_by, new_order_by,
                                nav.reverse_order)
           page   == CHOOSE q \in SortKeys \X BOOLEAN :
                        index_file_name(nav.prefix, q[1], q[2]) = target
       IN  /\ Len(nav.trail) < MaxLinks
           /\ nav' = [OnPage(nav.prefix, page[1], page[2],
                             Append(nav.trail,
                                    [file     |-> nav.file,
                                     same_key |-> new_order_by = nav.order_by]))
                      EXCEPT !.file = target]
           /\ UNCHANGED <<configuration, fsvars, listing, mtime, clock, stack,
                          status, error, written, previous, run, visited,
                          indexed>>

SpecLink == InitLink /\ [][follow_link]_vars

(***************************************************************************)
(* Vocabulary of the properties.                                           *)
(***************************************************************************)
Terminated == status \in {"done", "error"}

IndexOf(d) == PathJoin(d, INDEX_HTML)

\* p lies strictly below the directory d
IsUnder(p, d) == StartsWith(p, d \o SLASH)

\* P without its leading B
StripLeading(P, B) == SubSeq(P, Len(B) + 1, Len(P))

\* the directory is matched by a configured exclude pattern
ExcludedDir(D) ==
    \E i \in 1..Len(configuration.exclude_path) :
       pattern_matches(configuration.exclude_path[i],
                       StripLeading(D, configuration.base_path))

\* the name of the entry a line of a page shows
EntryName(item) ==
    IF item.folder THEN SubSeq(item.text, 1, Len(item.text) - 1)
    ELSE item.text

\* the code points of the characters of the names of the model
CodePoint(c) ==
    CASE c = "." -> 46 [] c = "a" -> 97 [] c = "b" -> 98 [] c = "f" -> 102
      [] c = "h" -> 104 [] c = "m" -> 109

\* x <= y as Python compares strings
RECURSIVE NameLE(_, _)
NameLE(x, y) ==
    IF x = <<>> THEN TRUE
    ELSE IF y = <<>> THEN FALSE
    ELSE IF Head(x) = Head(y) THEN NameLE(Tail(x), Tail(y))
    ELSE CodePoint(Head(x)) < CodePoint(Head(y))

(***************************************************************************)
(* C1: when a run has completed, every directory it visited that is not    *)
(* excluded holds index.html and the index file of each of the six         *)
(* (sort key, direction) combinations.                                     *)
(***************************************************************************)
C1_SixIndexesWritten ==
    (status = "done" /\ ~configuration.noop) =>
        \A d \in visited :
           ~ExcludedDir(d) =>
              /\ IndexOf(d) \in DOMAIN written
              /\ \A k \in SortKeys, r \in BOOLEAN :
                    PathJoin(d, index_file_name(<<>>, k, r)) \in DOMAIN written

(***************************************************************************)
(* C2: for a directory D that a configured exclude pattern matches, no     *)
(* index file is written inside D (D is not indexed and no file lies below *)
(* it), and no descendant of D is enumerated.                              *)
(***************************************************************************)
C2_ExcludedUntouched ==
    \A D \in isdir :
       ExcludedDir(D) =>
          /\ D \notin indexed
          /\ \A p \in DOMAIN written : ~IsUnder(p, D)
          /\ \A E \in visited \cup indexed : ~IsUnder(E, D)

\* a run has reached an excluded directory that has subdirectories, and ended
C2_Witness ==
    /\ Terminated
    /\ \E D \in visited :
          /\ ExcludedDir(D)
          /\ \E E \in isdir : IsUnder(E, D)

(***************************************************************************)
(* C3: the index.html of a directory lists its entries in ascending order  *)
(* of name, whatever the order the entry source returned them in.          *)
(***************************************************************************)
C3_IndexSortedByName ==
    \A p \in DOMAIN written :
       \A i, j \in 1..Len(written[p].items) :
          i < j => NameLE(EntryName(written[p].items[i]),
                          EntryName(written[p].items[j]))

(***************************************************************************)
(* C4: when a subdirectory cannot be enumerated, the run is not aborted:   *)
(* it completes, and every directory outside the subtrees that cannot be   *)
(* enumerated has been indexed.                                            *)
(***************************************************************************)
C4_FailureSkipsOnlySubtree ==
    (Terminated /\ unreadable # {} /\ configuration.exclude_path = <<>>) =>
        /\ status = "done"
        /\ \A d \in isdir :
              (\A u \in unreadable : d # u /\ ~IsUnder(d, u)) => d \in indexed

(***************************************************************************)
(* C5: for a directory P below the base path B, the path the page shows    *)
(* and the path the exclusion patterns are matched against are P without   *)
(* its leading B; a later occurrence of B in P is kept.                    *)
(***************************************************************************)
C5_ExactPrefixStripped ==
    \A P \in indexed :
       LET B        == configuration.base_path
           stripped == StripLeading(P, B)
       IN  (StartsWith(P, B) /\ IndexOf(P) \in DOMAIN written) =>
              /\ excluded_path_subject(P) = stripped
              /\ written[IndexOf(P)].title =
                    (IF stripped = <<>> THEN SLASH ELSE stripped \o SLASH)

\* the line of every file, last modified on 2021-03-04 at 09:15, shows that
\* time as 04-Mar-2021 09:15
TimestampRendered ==
    \A d \in isdir :
       IndexOf(d) \in DOMAIN written =>
          \A i \in 1..Len(written[IndexOf(d)].items) :
             LET item == written[IndexOf(d)].items[i] IN
             ~item.folder =>
                item.lastModified =
                   <<"0", "4", "-", "M", "a", "r", "-", "2", "0", "2", "1",
                     " ", "0", "9", ":", "1", "5">>

(***************************************************************************)
(* C6: the line of a file of s bytes shows s as a binary-prefixed value    *)
(* with one decimal (2048 as 2.0KiB), and its time as DD-Mon-YYYY HH:MM    *)
(* (2021-03-04 09:15 as 04-Mar-2021 09:15).                                *)
(***************************************************************************)
C6_SizeHumanReadable ==
    /\ TimestampRendered
    /\ \A d \in isdir :
          IndexOf(d) \in DOMAIN written =>
             \A i \in 1..Len(written[IndexOf(d)].items) :
                LET item == written[IndexOf(d)].items[i] IN
                ~item.folder =>
                   item.size =
                      PadLeft(format_size(fsize[PathJoin(d, EntryName(item))]),
                              19)

(***************************************************************************)
(* C7: a second run over the tree as the first run left it, with the same  *)
(* configuration, leaves every index file with the content the first run   *)
(* gave it.                                                                *)
(***************************************************************************)
C7_SecondRunIdentical ==
    (run >= 2 /\ status = "done") => written = previous

(***************************************************************************)
(* C8: the link of column n on the page (c, r) is the file name of         *)
(* (c, not r) when n = c and of (n, ascending) otherwise; a reader who     *)
(* follows the link of the page's own key twice is back on the file name   *)
(* the reader started from.                                                *)
(***************************************************************************)
C8_LinkTargets ==
    /\ \A n \in SortKeys :
          index_link(nav.prefix, nav.order_by, n, nav.reverse_order) =
             IF n = nav.order_by
             THEN index_file_name(nav.prefix, nav.order_by, ~nav.reverse_order)
             ELSE index_file_name(nav.prefix, n, FALSE)
    /\ nav.file = index_file_name(nav.prefix, nav.order_by, nav.reverse_order)
    /\ \A k \in 2..Len(nav.trail) :
          (nav.trail[k - 1].same_key /\ nav.trail[k].same_key) =>
             (IF k = Len(nav.trail) THEN nav.file ELSE nav.trail[k + 1].file)
                = nav.trail[k - 1].file

\* the reader has followed the link of the page's own key twice in a row
C8_Witness ==
    /\ Len(nav.trail) >= 2
    /\ nav.trail[Len(nav.trail) - 1].same_key
    /\ nav.trail[Len(nav.trail)].same_key
    /\ nav.file = nav.trail[Len(nav.trail) - 1].file
    /\ nav.file # nav.trail[Len(nav.trail)].file

(***************************************************************************)
(* C9: a child directory is descended into and indexed only if it survived *)
(* the filtering of its parent: never when its name starts with '.', and   *)
(* never when the parent's page does not list it.                          *)
(***************************************************************************)
C9_OnlySurvivorsDescended ==
    \A parent \in visited :
       \A i \in 1..Len(listing[parent]) :
          LET name  == listing[parent][i]
              child == PathJoin(parent, name)
          IN  child \in visited \cup indexed =>
                 /\ ~StartsWith(name, <<".">>)
                 /\ IndexOf(parent) \in DOMAIN written =>
                       \E k \in 1..Len(written[IndexOf(parent)].items) :
                          EntryName(written[IndexOf(parent)].items[k]) = name

(***************************************************************************)
(* C10: the page of a directory holds the link ../index.html if and only   *)
(* if the directory is not the root of the traversed tree.                 *)
(***************************************************************************)
C10_ParentLinkIffNotRoot ==
    \A d \in isdir :
       IndexOf(d) \in DOMAIN written =>
          (written[IndexOf(d)].parent_link <=> d # configuration.path)

====
